---- MODULE Spec2Model ----
(***************************************************************************)
(* Blockly Games "Pattern": the character grid (Pattern.rowArray), the     *)
(* match engine (Pattern.getMatches) and the timer-staged play cycle       *)
(* (Pattern.runButtonClick / Pattern.execute).                             *)
(*                                                                         *)
(* Characters are their ASCII codes; a string is a sequence of codes.      *)
(* Rows, columns and string positions are 0-based as in the source; the    *)
(* helper charAt turns a 0-based position into a sequence index.           *)
(***************************************************************************)
EXTENDS Integers, Sequences, FiniteSets, TLC

(***************************************************************************)
(* Bounds of the model.                                                    *)
(***************************************************************************)
\* The grid is Dim x Dim (the program's grid is square: 10 x 10).
Dim == 3
\* Math.random only ever selects one of the first NumChars alphabet letters.
NumChars == 2
\* Number of run-button clicks followed in one session.
MaxClicks == 2

(***************************************************************************)
(* Program constants.                                                      *)
(***************************************************************************)
CHAR_PER_ROW == Dim
NUM_ROWS == Dim
REMOVED_CHAR_SYMBOL == 32
minChar == 65
maxChar == 90
\* '*', the one regular-expression operator of the modelled pattern language.
STAR == 42
\* Delays of the two timers of Pattern.execute.
REDRAW_DELAY == 2000
\* Mutant of REMOVE_DELAY: the removal is scheduled after the redraw.
REMOVE_DELAY_late == REDRAW_DELAY + 1000
REMOVE_DELAY == 1000

Min(S) == CHOOSE x \in S : \A y \in S : x <= y

\* str.charAt(i) / str[i] for an in-range 0-based position i.
charAt(str, i) == str[i + 1]

(***************************************************************************)
(* Math.random: within one handler the successive values of                *)
(* Math.floor(Math.random() * POSSIBLE_ASCII_CHARACTERS.length) follow one *)
(* of the streams below: a first value, then constant or counting upwards  *)
(* modulo NumChars.  draw(rnd, k) is draw number k (0-based) of a stream.  *)
(***************************************************************************)
RandomStreams == [seed : 0..(NumChars - 1), step : {0, 1}]
draw(rnd, k) == (rnd.seed + (k * rnd.step)) % NumChars

(***************************************************************************)
(* Alphabet.                                                               *)
(***************************************************************************)
\* The else branch of createCharacterString: codes min .. max-1.
charCodeRange(min, max) == [c \in 1..(max - min) |-> min + c - 1]

\* Pattern.POSSIBLE_ASCII_CHARACTERS as assigned at load time, when the
\* earlier value is still the empty string.
POSSIBLE_ASCII_CHARACTERS == charCodeRange(minChar, maxChar)

\* Pattern.generateCharacter, index being Math.floor(Math.random() * length).
generateCharacter(index) == charAt(POSSIBLE_ASCII_CHARACTERS, index)

\* Pattern.createCharacterString(length) once the alphabet exists: `length`
\* generated characters, using draws first, first+1, ... of the stream.
createCharacterString(length, rnd, first) ==
  [c \in 1..length |-> generateCharacter(draw(rnd, first + c - 1))]

(***************************************************************************)
(* Grid helpers.                                                           *)
(***************************************************************************)
Cells == (0..(NUM_ROWS - 1)) \X (0..(CHAR_PER_ROW - 1))
cellAt(rows, loc) == charAt(rows[loc[1] + 1], loc[2])

RowMissing(rows, r) == r > Len(rows) \/ rows[r] = <<>>
MissingBefore(rows, r) == Cardinality({q \in 1..(r - 1) : RowMissing(rows, q)})

\* Mutant of populate: the removed cells of a kept row are filled too.
populate_fillsRemovedCells(rows, rnd) ==
  [r \in 1..NUM_ROWS |->
     IF RowMissing(rows, r)
       THEN createCharacterString(CHAR_PER_ROW, rnd, 0)
       ELSE [c \in 1..Len(rows[r]) |->
               IF rows[r][c] = REMOVED_CHAR_SYMBOL
                 THEN generateCharacter(draw(rnd, c)) ELSE rows[r][c]]]

\* Mutant of populate: a row of removed cells only counts as missing.
populate_fillsRemovedRows(rows, rnd) ==
  [r \in 1..NUM_ROWS |->
     IF RowMissing(rows, r)
          \/ \A c \in 1..Len(rows[r]) : rows[r][c] = REMOVED_CHAR_SYMBOL
       THEN createCharacterString(CHAR_PER_ROW, rnd, 0)
       ELSE rows[r]]

\* Mutant of populate: every row is generated anew.
populate_overwrite(rows, rnd) ==
  [r \in 1..NUM_ROWS |->
     createCharacterString(CHAR_PER_ROW, rnd, (r - 1) * CHAR_PER_ROW)]

\* The row-filling step of Pattern.generateCharDisplay: a row that is
\* undefined or the empty string is generated, any other row is kept.
populate(rows, rnd) ==
  [r \in 1..(IF Len(rows) > NUM_ROWS THEN Len(rows) ELSE NUM_ROWS) |->
     IF r <= NUM_ROWS /\ RowMissing(rows, r)
       THEN createCharacterString(CHAR_PER_ROW, rnd,
                                  MissingBefore(rows, r) * CHAR_PER_ROW)
       ELSE rows[r]]

(***************************************************************************)
(* The pattern language.  Blockly.JavaScript.workspaceToCode() returns the *)
(* source text of a regular expression; the texts submitted here are       *)
(* "", "*", "A", "B", "AB", "BA", "AA", "A*" and "A*B".                    *)
(***************************************************************************)
LetterA == generateCharacter(0)
LetterB == generateCharacter(1)
UserRegexStrings ==
  {<<>>, <<STAR>>, <<LetterA>>, <<LetterB>>, <<LetterA, LetterB>>,
   <<LetterB, LetterA>>, <<LetterA, LetterA>>, <<LetterA, STAR>>,
   <<LetterA, STAR, LetterB>>}

\* new RegExp(s, 'g') throws a SyntaxError ("nothing to repeat") when a '*'
\* opens the text or follows another '*'.
RegExpValid(s) == \A i \in 1..Len(s) : s[i] = STAR => (i > 1 /\ s[i - 1] # STAR)

IsCharItem(item) == item.ch # STAR
\* The compiled expression: one item per letter, starred when a '*' follows.
RegExp(s) ==
  SelectSeq([i \in 1..Len(s) |->
               [ch |-> s[i], star |-> (i < Len(s) /\ s[i + 1] = STAR)]],
            IsCharItem)

\* Number of consecutive occurrences of ch in str from 0-based position pos.
RECURSIVE runLength(_, _, _)
runLength(str, pos, ch) ==
  IF pos < Len(str) /\ charAt(str, pos) = ch
    THEN 1 + runLength(str, pos + 1, ch)
    ELSE 0

\* Backtracking match of the items at position pos: the 0-based end position
\* of the match the engine reports (greedy stars), or -1 when there is none.
RECURSIVE matchEnd(_, _, _)
RECURSIVE matchStar(_, _, _, _)
matchEnd(items, str, pos) ==
  IF items = <<>> THEN pos
  ELSE IF Head(items).star
    THEN matchStar(Tail(items), str, pos, runLength(str, pos, Head(items).ch))
  ELSE IF pos < Len(str) /\ charAt(str, pos) = Head(items).ch
    THEN matchEnd(Tail(items), str, pos + 1)
  ELSE -1
matchStar(rest, str, pos, n) ==
  IF n < 0 THEN -1
  ELSE LET end == matchEnd(rest, str, pos + n)
       IN  IF end # -1 THEN end ELSE matchStar(rest, str, pos, n - 1)

\* Mutant of exec: a failed search leaves lastIndex where it was.
exec_keepLastIndex(items, str, lastIndex) ==
  LET starts == {k \in lastIndex..Len(str) : matchEnd(items, str, k) # -1}
      first == Min(starts)
      end == matchEnd(items, str, first)
  IN  IF lastIndex > Len(str) \/ starts = {}
        THEN [found |-> FALSE, index |-> 0, length |-> 0, lastIndex |-> lastIndex]
        ELSE [found |-> TRUE, index |-> first, length |-> end - first,
              lastIndex |-> end]

\* Mutant of exec: lastIndex is moved past an empty match.
exec_advancesPastEmpty(items, str, lastIndex) ==
  LET starts == {k \in lastIndex..Len(str) : matchEnd(items, str, k) # -1}
      first == Min(starts)
      end == matchEnd(items, str, first)
  IN  IF lastIndex > Len(str) \/ starts = {}
        THEN [found |-> FALSE, index |-> 0, length |-> 0, lastIndex |-> 0]
        ELSE [found |-> TRUE, index |-> first, length |-> end - first,
              lastIndex |-> IF end = first THEN end + 1 ELSE end]

\* Mutant of exec: the scan resumes one past the START of a match.
exec_overlapping(items, str, lastIndex) ==
  LET starts == {k \in lastIndex..Len(str) : matchEnd(items, str, k) # -1}
      first == Min(starts)
      end == matchEnd(items, str, first)
  IN  IF lastIndex > Len(str) \/ starts = {}
        THEN [found |-> FALSE, index |-> 0, length |-> 0, lastIndex |-> 0]
        ELSE [found |-> TRUE, index |-> first, length |-> end - first,
              lastIndex |-> IF end > first THEN first + 1 ELSE first]

\* RegExp.prototype.exec of a global expression whose lastIndex is given:
\* the leftmost match starting at or after lastIndex; lastIndex becomes the
\* end of the match, or 0 when the search fails.
exec(items, str, lastIndex) ==
  LET starts == {k \in lastIndex..Len(str) : matchEnd(items, str, k) # -1}
      first == Min(starts)
      end == matchEnd(items, str, first)
  IN  IF lastIndex > Len(str) \/ starts = {}
        THEN [found |-> FALSE, index |-> 0, length |-> 0, lastIndex |-> 0]
        ELSE [found |-> TRUE, index |-> first, length |-> end - first,
              lastIndex |-> end]

\* The inner for loop of getMatches: one [row, column] per matched character.
matchColumns(row, m) == [j \in 1..m.length |-> <<row, m.index + j - 1>>]

\* The loops of Pattern.getMatches from (row, lastIndex) with the locations
\* collected so far.  A zero-length match pushes nothing and leaves lastIndex
\* at the position it was found at, so the while loop repeats it for ever.
\* `match` is bound to the value exec returned, as the local variable of
\* the source is (here and below: CHOOSE over the one result computed from a
\* variable bound to the one value).
RECURSIVE scanRows(_, _, _, _, _)
scanRows(items, rows, row, lastIndex, matchLocations) ==
  IF row >= Len(rows)
    THEN [threw |-> FALSE, diverged |-> FALSE, matchLocations |-> matchLocations]
  ELSE CHOOSE result \in
         {IF ~match.found
            THEN scanRows(items, rows, row + 1, match.lastIndex, matchLocations)
          ELSE IF match.length = 0
            THEN [threw |-> FALSE, diverged |-> TRUE,
                  matchLocations |-> matchLocations]
          ELSE scanRows(items, rows, row, match.lastIndex,
                        matchLocations \o matchColumns(row, match))
            : match \in {exec(items, rows[row + 1], lastIndex)}} : TRUE

\* Pattern.getMatches: the constructor throws on an invalid text; otherwise
\* one expression object (lastIndex 0) is used for all rows.
getMatches(userRegexString, rows) ==
  IF ~RegExpValid(userRegexString)
    THEN [threw |-> TRUE, diverged |-> FALSE, matchLocations |-> <<>>]
    ELSE scanRows(RegExp(userRegexString), rows, 0, 0, <<>>)

(***************************************************************************)
(* Grid mutation.                                                          *)
(***************************************************************************)
\* Mutant of replaceFirst: every occurrence is replaced.
replaceFirst_everyOccurrence(str, ch, rep) ==
  [i \in 1..Len(str) |-> IF str[i] = ch THEN rep ELSE str[i]]

\* String.prototype.replace(ch, rep) with a string pattern: the FIRST
\* occurrence of ch is replaced, wherever it is.
replaceFirst(str, ch, rep) ==
  LET at == {i \in 1..Len(str) : str[i] = ch}
  IN  IF at = {} THEN str ELSE [str EXCEPT ![Min(at)] = rep]

\* Pattern.removeCharacters, from the i-th (1-based) location on.
RECURSIVE removeFrom(_, _, _)
removeFrom(rows, matchIndexes, i) ==
  IF i > Len(matchIndexes) THEN rows
  ELSE CHOOSE result \in
         {removeFrom(next, matchIndexes, i + 1) : next \in
            {[rows EXCEPT ![matchIndexes[i][1] + 1] =
                replaceFirst(rows[matchIndexes[i][1] + 1],
                             cellAt(rows, matchIndexes[i]),
                             REMOVED_CHAR_SYMBOL)]}} : TRUE
removeCharacters(rows, matchIndexes) == removeFrom(rows, matchIndexes, 1)

\* One step of the row loop of arrayShift for the 0-based row `row` >= 1:
\* every removed cell of the row takes the cell above, which becomes removed.
shiftInto(rows, row) ==
  [rows EXCEPT
     ![row + 1] = [c \in 1..Len(rows[row + 1]) |->
                     IF rows[row + 1][c] = REMOVED_CHAR_SYMBOL
                       THEN rows[row][c] ELSE rows[row + 1][c]],
     ![row] = [c \in 1..Len(rows[row]) |->
                 IF c <= Len(rows[row + 1])
                    /\ rows[row + 1][c] = REMOVED_CHAR_SYMBOL
                   THEN REMOVED_CHAR_SYMBOL ELSE rows[row][c]]]

\* The row loop: row = NUM_ROWS - 1 down to 1.
RECURSIVE shiftPass(_, _)
shiftPass(rows, row) ==
  IF row > 0
    THEN CHOOSE result \in
           {shiftPass(next, row - 1) : next \in {shiftInto(rows, row)}} : TRUE
    ELSE rows

\* The outer loop: i passes.
RECURSIVE shiftPasses(_, _)
shiftPasses(rows, i) ==
  IF i > 0
    THEN CHOOSE result \in
           {shiftPasses(next, i - 1) : next \in {shiftPass(rows, NUM_ROWS - 1)}}
           : TRUE
    ELSE rows

\* Mutant of arrayShift: a single pass over the rows.
arrayShift_onePass(rows) == shiftPasses(rows, 1)

\* Pattern.arrayShift.
arrayShift(rows) == shiftPasses(rows, NUM_ROWS)

\* Removed cells of the first NUM_ROWS rows that come before (r, c), 1-based,
\* in the row-major order in which replaceCharacters visits them.
RemovedBefore(rows, r, c) ==
  Cardinality({loc \in (1..r) \X (1..CHAR_PER_ROW) :
                 /\ loc[1] < r \/ loc[2] < c
                 /\ loc[2] <= Len(rows[loc[1]])
                 /\ rows[loc[1]][loc[2]] = REMOVED_CHAR_SYMBOL})

\* Mutant of replaceCharacters: the row loop starts at row 1.
replaceCharacters_skipFirstRow(rows, rnd, first) ==
  [r \in 1..Len(rows) |->
     IF r > 1 /\ r <= NUM_ROWS
       THEN [c \in 1..Len(rows[r]) |->
               IF rows[r][c] = REMOVED_CHAR_SYMBOL
                 THEN generateCharacter(draw(rnd, first + RemovedBefore(rows, r, c)))
                 ELSE rows[r][c]]
       ELSE rows[r]]

\* Pattern.replaceCharacters: every removed cell gets a generated character.
replaceCharacters(rows, rnd, first) ==
  [r \in 1..Len(rows) |->
     IF r <= NUM_ROWS
       THEN [c \in 1..Len(rows[r]) |->
               IF rows[r][c] = REMOVED_CHAR_SYMBOL
                 THEN generateCharacter(draw(rnd, first + RemovedBefore(rows, r, c)))
                 ELSE rows[r][c]]
       ELSE rows[r]]

(***************************************************************************)
(* The character display (the children of #charDisplay, in document        *)
(* order).  An element's id 'char_nn' is kept as its two digits nn, its    *)
(* className as the row of its 'r<row>' class and the number of            *)
(* ' matchedChar' suffixes appended to it.                                 *)
(***************************************************************************)
\* ('0' + n).slice(-2) for n >= 0: the last two decimal digits of n.
twoDigits(n) == <<(n \div 10) % 10, n % 10>>

\* The id generateCharDisplay gives the element of (row, col) in a grid with
\* charPerRow characters per row.
displayId(charPerRow, row, col) == twoDigits((row * charPerRow) + col)

\* Mutant of renderDisplay: every element shows the first character of its
\* row.
renderDisplay_firstColumn(rows) ==
  [k \in 1..(NUM_ROWS * CHAR_PER_ROW) |->
     [id |-> displayId(CHAR_PER_ROW, (k - 1) \div CHAR_PER_ROW,
                       (k - 1) % CHAR_PER_ROW),
      row |-> (k - 1) \div CHAR_PER_ROW,
      text |-> cellAt(rows, <<(k - 1) \div CHAR_PER_ROW, 0>>),
      matchedChar |-> 0]]

\* The element-creating loops of generateCharDisplay.
renderDisplay(rows) ==
  [k \in 1..(NUM_ROWS * CHAR_PER_ROW) |->
     [id |-> displayId(CHAR_PER_ROW, (k - 1) \div CHAR_PER_ROW,
                       (k - 1) % CHAR_PER_ROW),
      row |-> (k - 1) \div CHAR_PER_ROW,
      text |-> cellAt(rows, <<(k - 1) \div CHAR_PER_ROW, (k - 1) % CHAR_PER_ROW>>),
      matchedChar |-> 0]]

\* Pattern.generateCharDisplay: fill the rows, then rebuild the display.
generateCharDisplay(rows, rnd) ==
  [rowArray |-> populate(rows, rnd),
   charDisplay |-> renderDisplay(populate(rows, rnd))]

\* The id Pattern.elementLocation computes in a grid of numRows rows.
elementId(numRows, location) == twoDigits((location[1] * numRows) + location[2])

\* Pattern.elementLocation.
elementLocation(location) == elementId(NUM_ROWS, location)

\* document.getElementById: index of the first element with the id, 0 if none.
getElementById(display, id) ==
  IF \E k \in 1..Len(display) : display[k].id = id
    THEN Min({k \in 1..Len(display) : display[k].id = id})
    ELSE 0

\* Pattern.highlightMatches: className += ' matchedChar' for the element of
\* each location; a location without an element throws a TypeError at the
\* first such location and leaves the earlier ones highlighted.
highlightMatches(display, matchIndexes) ==
  LET missing == {i \in 1..Len(matchIndexes) :
                    getElementById(display, elementLocation(matchIndexes[i])) = 0}
      done == IF missing = {} THEN Len(matchIndexes) ELSE Min(missing) - 1
  IN  [threw |-> missing # {},
       charDisplay |->
         [k \in 1..Len(display) |->
            [display[k] EXCEPT !.matchedChar = @ + Cardinality(
               {i \in 1..done :
                  getElementById(display, elementLocation(matchIndexes[i])) = k})]]]

\* Pattern.removeHighlighting.  The expression is built from the string
\* literal '\s' + 'matchedChar', and '\s' in a string literal is the letter
\* s: it looks for "smatchedChar", which no className 'r<row> char
\* matchedChar' contains, so every className is left as it is.
removeHighlighting(display) == display

(***************************************************************************)
(* Timers.  Pending timeouts are kept in firing order with the time each   *)
(* still has to wait; the browser runs the one that is due first, and      *)
(* among equal due times the one set first.                                *)
(***************************************************************************)
\* window.setTimeout(fn, delay), fn closing over matchLocations.
setTimeout(pending, fn, delay, matchLocations) ==
  LET before == Cardinality({k \in 1..Len(pending) : pending[k].delay <= delay})
  IN  SubSeq(pending, 1, before)
        \o <<[fn |-> fn, delay |-> delay, matchLocations |-> matchLocations]>>
        \o SubSeq(pending, before + 1, Len(pending))

\* The pending timeouts once the first one has fired.
afterFiring(pending) ==
  [k \in 1..(Len(pending) - 1) |->
     [pending[k + 1] EXCEPT !.delay = @ - pending[1].delay]]

(***************************************************************************)
(* State.                                                                  *)
(***************************************************************************)
VARIABLES
  rowArray,           \* Pattern.rowArray
  charDisplay,        \* the elements of #charDisplay
  runButtonDisabled,  \* runButton.disabled
  timers,             \* pending window.setTimeout callbacks
  uncaught,           \* exception that escaped a handler, "none" if none did
  busy,               \* TRUE while a handler never returns (endless loop)
  trace,              \* functions the current cycle has run, in order
  clicks,             \* run-button clicks handled so far
  harness             \* direct calls of the grid functions (GridSpec only)

vars == <<rowArray, charDisplay, runButtonDisabled, timers, uncaught, busy,
          trace, clicks, harness>>

\* The value of harness on the page, where nothing is called directly.
NotCalled == [called |-> "none", matchIndexes |-> <<>>, before |-> <<>>]

\* Pattern.init: the grid is generated and rendered; the button is enabled.
Init ==
  \E rnd \in RandomStreams :
    /\ rowArray = generateCharDisplay(<<>>, rnd).rowArray
    /\ charDisplay = generateCharDisplay(<<>>, rnd).charDisplay
    /\ runButtonDisabled = FALSE
    /\ timers = <<>>
    /\ uncaught = "none"
    /\ busy = FALSE
    /\ trace = <<>>
    /\ clicks = 0
    /\ harness = NotCalled

\* Mutant of clickDisabled: the click handler leaves the button enabled.
clickDisabled_forgotten == FALSE
\* runButton.disabled as Pattern.runButtonClick sets it.
clickDisabled == TRUE
\* Mutant of resetDisabled: reset leaves the button disabled.
resetDisabled_stuck == TRUE
\* runButton.disabled as Pattern.reset sets it.
resetDisabled == FALSE

\* The two setTimeout calls of Pattern.execute.
scheduleCycle(pending, matchLocations) ==
  setTimeout(setTimeout(pending, "remove", REMOVE_DELAY, matchLocations),
             "redraw", REDRAW_DELAY, matchLocations)

\* A click on the run button: Pattern.runButtonClick and Pattern.execute.
\* A disabled button receives no click.
RunButtonClick(userRegexString) ==
  /\ ~runButtonDisabled
  /\ ~busy
  /\ clicks < MaxClicks
  /\ clicks' = clicks + 1
  /\ UNCHANGED harness
  /\ \E found \in {getMatches(userRegexString, rowArray)} :
     \E shown \in {highlightMatches(charDisplay, found.matchLocations)} :
         IF found.threw
           THEN /\ runButtonDisabled' = clickDisabled
                /\ uncaught' = "SyntaxError"
                /\ trace' = <<"getMatches">>
                /\ UNCHANGED <<rowArray, charDisplay, timers, busy>>
         ELSE IF found.diverged
           THEN /\ runButtonDisabled' = clickDisabled
                /\ busy' = TRUE
                /\ trace' = <<"getMatches">>
                /\ UNCHANGED <<rowArray, charDisplay, timers, uncaught>>
         ELSE IF found.matchLocations # <<>> /\ shown.threw
           THEN /\ runButtonDisabled' = clickDisabled
                /\ charDisplay' = shown.charDisplay
                /\ uncaught' = "TypeError"
                /\ trace' = <<"getMatches", "highlightMatches">>
                /\ UNCHANGED <<rowArray, timers, busy>>
         ELSE IF found.matchLocations # <<>>
           THEN /\ runButtonDisabled' = clickDisabled
                /\ charDisplay' = shown.charDisplay
                /\ timers' = scheduleCycle(timers, found.matchLocations)
                /\ trace' = <<"getMatches", "highlightMatches">>
                /\ UNCHANGED <<rowArray, uncaught, busy>>
         ELSE /\ runButtonDisabled' = resetDisabled
              /\ trace' = <<"getMatches", "playAudio", "reset">>
              /\ UNCHANGED <<rowArray, charDisplay, timers, uncaught, busy>>

\* The first timeout of Pattern.execute fires.  shiftCharacters only sets
\* style.webkitTransform of elements that exist in a 10 x 10 display.
FireRemove(rnd) ==
  /\ ~busy
  /\ timers # <<>>
  /\ Head(timers).fn = "remove"
  /\ \E removed \in {removeCharacters(rowArray, Head(timers).matchLocations)} :
     \E shown \in {generateCharDisplay(removed, rnd)} :
     \E shifted \in {arrayShift(shown.rowArray)} :
       /\ rowArray' = replaceCharacters(
                         shifted, rnd,
                         Cardinality({r \in 1..NUM_ROWS : RowMissing(removed, r)})
                           * CHAR_PER_ROW)
       /\ charDisplay' = shown.charDisplay
  /\ timers' = afterFiring(timers)
  /\ trace' = trace \o <<"removeCharacters", "removeHighlighting",
                         "generateCharDisplay", "shiftCharacters",
                         "arrayShift", "replaceCharacters">>
  /\ UNCHANGED <<runButtonDisabled, uncaught, busy, clicks, harness>>

\* The second timeout of Pattern.execute fires.
FireRedraw(rnd) ==
  /\ ~busy
  /\ timers # <<>>
  /\ Head(timers).fn = "redraw"
  /\ \E shown \in {generateCharDisplay(rowArray, rnd)} :
       /\ rowArray' = shown.rowArray
       /\ charDisplay' = shown.charDisplay
  /\ runButtonDisabled' = resetDisabled
  /\ timers' = afterFiring(timers)
  /\ trace' = trace \o <<"generateCharDisplay", "reset">>
  /\ UNCHANGED <<uncaught, busy, clicks, harness>>

Next ==
  \/ \E userRegexString \in UserRegexStrings : RunButtonClick(userRegexString)
  \/ \E rnd \in RandomStreams : FireRemove(rnd)
  \/ \E rnd \in RandomStreams : FireRedraw(rnd)

Spec == Init /\ [][Next]_vars

(***************************************************************************)
(* GridSpec: the grid functions called directly, outside a play cycle, on  *)
(* a generated grid and a list of in-bounds locations: any cells of any    *)
(* two columns.  The page has no pending timer and no click is handled.    *)
(***************************************************************************)
\* The cells of a set as a list in row-major order.
cellList(S) ==
  [k \in 1..Cardinality(S) |->
     CHOOSE loc \in S :
       Cardinality({other \in S :
                      \/ other[1] < loc[1]
                      \/ other[1] = loc[1] /\ other[2] < loc[2]}) = k - 1]

\* The grid with exactly the listed cells holding the removed-character symbol.
withRemoved(rows, matchIndexes) ==
  [r \in 1..Len(rows) |->
     [c \in 1..Len(rows[r]) |->
        IF \E i \in 1..Len(matchIndexes) : matchIndexes[i] = <<r - 1, c - 1>>
          THEN REMOVED_CHAR_SYMBOL ELSE rows[r][c]]]

\* The location sets of the harness.
HarnessLocations ==
  {(R1 \X {c1}) \cup (R2 \X {c2}) :
     <<c1, c2, R1, R2>> \in (0..(CHAR_PER_ROW - 1)) \X (0..(CHAR_PER_ROW - 1))
                              \X (SUBSET (0..(NUM_ROWS - 1)))
                              \X (SUBSET (0..(NUM_ROWS - 1)))}

HarnessInit ==
  \E rnd \in RandomStreams, S \in HarnessLocations :
    /\ rowArray = populate(<<>>, rnd)
    /\ charDisplay = renderDisplay(rowArray)
    /\ runButtonDisabled = TRUE
    /\ timers = <<>>
    /\ uncaught = "none"
    /\ busy = FALSE
    /\ trace = <<>>
    /\ clicks = 0
    /\ harness = [called |-> "ready", matchIndexes |-> cellList(S), before |-> <<>>]

\* Pattern.arrayShift() on the grid with the listed cells removed.
CallArrayShift ==
  /\ harness.called = "ready"
  /\ harness' = [harness EXCEPT !.called = "arrayShift",
                                !.before = withRemoved(rowArray, harness.matchIndexes)]
  /\ rowArray' = arrayShift(withRemoved(rowArray, harness.matchIndexes))
  /\ UNCHANGED <<charDisplay, runButtonDisabled, timers, uncaught, busy, trace,
                 clicks>>

\* Pattern.removeCharacters(matchIndexes); Pattern.arrayShift();
\* Pattern.replaceCharacters() on the generated grid.
CallRemoveShiftReplace(rnd) ==
  /\ harness.called = "ready"
  /\ harness' = [harness EXCEPT !.called = "replaceCharacters",
                                !.before = rowArray]
  /\ \E removed \in {removeCharacters(rowArray, harness.matchIndexes)} :
     \E shifted \in {arrayShift(removed)} :
       rowArray' = replaceCharacters(shifted, rnd, 0)
  /\ UNCHANGED <<charDisplay, runButtonDisabled, timers, uncaught, busy, trace,
                 clicks>>

\* Rows handed to the row-filling step of generateCharDisplay: a row that
\* is not there (undefined at the end of the array, the empty string before
\* a later row), a generated row, a row of removed cells only, and a
\* generated row whose first cell is removed.
RowKinds == {"missing", "generated", "removed", "partly"}
harnessRow(row, kind) ==
  CASE kind = "missing" -> <<>>
    [] kind = "generated" -> row
    [] kind = "removed" -> [c \in 1..Len(row) |-> REMOVED_CHAR_SYMBOL]
    [] kind = "partly" -> [row EXCEPT ![1] = REMOVED_CHAR_SYMBOL]
harnessGrid(rows, kinds) ==
  LET present == {r \in 1..Len(rows) : kinds[r] # "missing"}
      last == IF present = {} THEN 0 ELSE CHOOSE r \in present :
                                            \A q \in present : q <= r
  IN  [r \in 1..last |-> harnessRow(rows[r], kinds[r])]

\* Pattern.rowArray before a direct call of the row-filling step.
PopulateInit ==
  \E rnd \in RandomStreams, kinds \in [1..NUM_ROWS -> RowKinds] :
    /\ rowArray = harnessGrid(populate(<<>>, rnd), kinds)
    /\ charDisplay = <<>>
    /\ runButtonDisabled = TRUE
    /\ timers = <<>>
    /\ uncaught = "none"
    /\ busy = FALSE
    /\ trace = <<>>
    /\ clicks = 0
    /\ harness = [called |-> "populateReady", matchIndexes |-> <<>>,
                  before |-> <<>>]

\* The row-filling step of Pattern.generateCharDisplay, called once...
CallPopulate(rnd) ==
  /\ harness.called = "populateReady"
  /\ harness' = [harness EXCEPT !.called = "populate", !.before = rowArray]
  /\ rowArray' = populate(rowArray, rnd)
  /\ UNCHANGED <<charDisplay, runButtonDisabled, timers, uncaught, busy, trace,
                 clicks>>

\* ... and a second time on its own result.
CallPopulateAgain(rnd) ==
  /\ harness.called = "populate"
  /\ harness' = [harness EXCEPT !.called = "populateAgain"]
  /\ rowArray' = populate(rowArray, rnd)
  /\ UNCHANGED <<charDisplay, runButtonDisabled, timers, uncaught, busy, trace,
                 clicks>>

HarnessNext ==
  \/ CallArrayShift
  \/ \E rnd \in RandomStreams : CallRemoveShiftReplace(rnd)
  \/ \E rnd \in RandomStreams : CallPopulate(rnd)
  \/ \E rnd \in RandomStreams : CallPopulateAgain(rnd)

GridSpec == (HarnessInit \/ PopulateInit) /\ [][HarnessNext]_vars

(***************************************************************************)
(* Vocabulary of the properties.                                           *)
(***************************************************************************)
\* No cycle is in progress: the button is enabled and nothing is pending.
Idle == ~runButtonDisabled /\ timers = <<>> /\ ~busy

\* NUM_ROWS rows of CHAR_PER_ROW characters.
HasGridShape(rows) ==
  /\ Len(rows) = NUM_ROWS
  /\ \A r \in 1..Len(rows) : Len(rows[r]) = CHAR_PER_ROW

NoRemovedCell(rows) ==
  \A r \in 1..Len(rows) : \A c \in 1..Len(rows[r]) :
    rows[r][c] # REMOVED_CHAR_SYMBOL

\* The text shown by the display element rendered for (row, col).
ShownAt(display, loc) == display[(loc[1] * CHAR_PER_ROW) + loc[2] + 1].text

\* What a completed cycle with matches runs, and what one without runs.
MatchCycleTrace ==
  <<"getMatches", "highlightMatches", "removeCharacters", "removeHighlighting",
    "generateCharDisplay", "shiftCharacters", "arrayShift", "replaceCharacters",
    "generateCharDisplay", "reset">>
NoMatchCycleTrace == <<"getMatches", "playAudio", "reset">>

\* The first timeout has run and the second is pending: the display shows
\* the grid as removeCharacters left it.
RemovalShown == timers # <<>> /\ Head(timers).fn = "redraw"

\* C1: after removeCharacters every location of the match list holds the
\* removed-character symbol at its own row and column.
C1_MatchLocationsRemoved ==
  RemovalShown =>
    \A i \in 1..Len(Head(timers).matchLocations) :
      ShownAt(charDisplay, Head(timers).matchLocations[i]) = REMOVED_CHAR_SYMBOL

(***************************************************************************)
(* CycleSpec: the play cycle of the page together with the direct calls of *)
(* GridSpec, for properties stated of both.                                *)
(***************************************************************************)
CycleSpec == (Init \/ HarnessInit \/ PopulateInit) /\ [][Next \/ HarnessNext]_vars

\* C2: whenever the cycle is idle the grid has NUM_ROWS rows of CHAR_PER_ROW
\* characters and no removed cell; and removeCharacters, arrayShift,
\* replaceCharacters in a row, on a generated grid and any list of in-bounds
\* locations, give a grid of that shape without a removed cell.
C2_IdleGridComplete ==
  /\ Idle => HasGridShape(rowArray) /\ NoRemovedCell(rowArray)
  /\ harness.called = "replaceCharacters" =>
       HasGridShape(rowArray) /\ NoRemovedCell(rowArray)

\* C2 happens: the page is idle again after MaxClicks cycles, the last of
\* which removed, collapsed and refilled cells.
C2_Witness ==
  Idle /\ clicks = MaxClicks /\ trace = MatchCycleTrace

\* The column col (0-based) of a grid, top to bottom.
column(rows, col) == [r \in 1..Len(rows) |-> charAt(rows[r], col)]
IsKept(ch) == ch # REMOVED_CHAR_SYMBOL

\* C3: after arrayShift every column has its removed cells above its other
\* cells, and the top-to-bottom sequence of the other cells of each column is
\* what it was before the call.
C3_ArrayShiftSettlesColumns ==
  harness.called = "arrayShift" =>
    /\ HasGridShape(rowArray)
    /\ \A col \in 0..(CHAR_PER_ROW - 1) :
         /\ \A r \in 1..(NUM_ROWS - 1) :
              column(rowArray, col)[r] # REMOVED_CHAR_SYMBOL =>
                column(rowArray, col)[r + 1] # REMOVED_CHAR_SYMBOL
         /\ SelectSeq(column(rowArray, col), IsKept)
              = SelectSeq(column(harness.before, col), IsKept)

\* C3 happens: arrayShift ran on a grid with a column that was removed except
\* for its top cell (at least two removed cells stacked below it), and with a
\* column holding two different characters above a removed cell.
C3_Witness ==
  /\ harness.called = "arrayShift"
  /\ NUM_ROWS >= 3
  /\ \E col \in 0..(CHAR_PER_ROW - 1) :
       /\ column(harness.before, col)[1] # REMOVED_CHAR_SYMBOL
       /\ \A r \in 2..NUM_ROWS :
            column(harness.before, col)[r] = REMOVED_CHAR_SYMBOL
       /\ column(rowArray, col)[NUM_ROWS] = column(harness.before, col)[1]
  /\ \E col \in 0..(CHAR_PER_ROW - 1) :
       /\ column(harness.before, col)[1] # REMOVED_CHAR_SYMBOL
       /\ column(harness.before, col)[2] # REMOVED_CHAR_SYMBOL
       /\ column(harness.before, col)[1] # column(harness.before, col)[2]
       /\ column(harness.before, col)[3] = REMOVED_CHAR_SYMBOL

\* The first timeout is pending: the match list of the click is on display.
MatchesShown == timers # <<>> /\ Head(timers).fn = "remove"

\* Row-major order of locations.
Precedes(a, b) == a[1] < b[1] \/ (a[1] = b[1] /\ a[2] < b[2])

\* The start positions of a left-to-right scan for non-overlapping, non-empty
\* matches of str: a position starts a match iff the items match there and
\* no match started earlier reaches over it.
scanStarts(items, str) ==
  CHOOSE S \in SUBSET (0..(Len(str) - 1)) :
    \A k \in 0..(Len(str) - 1) :
      k \in S <=> /\ matchEnd(items, str, k) > k
                  /\ \A j \in S : j < k => matchEnd(items, str, j) <= k

\* The cells such a scan covers in each row of a grid.
scannedCells(items, rows) ==
  UNION {LET str == rows[row + 1]
             starts == scanStarts(items, str)
         IN  {<<row, col>> : col \in
                {c \in 0..(Len(str) - 1) :
                   \E k \in starts : k <= c /\ c < matchEnd(items, str, k)}}
         : row \in 0..(Len(rows) - 1)}

\* C4: for a pattern whose matches are all non-empty, the list getMatches
\* returns holds exactly the cells covered by the non-overlapping matches of
\* a left-to-right scan of each row, in row-major order (rows increasing,
\* columns increasing, so no pair twice), all within the grid; "A" on the row
\* "AABAA" gives columns 0, 1, 3, 4, and a row without an occurrence gives
\* no pair.  The grids are those of the idle page, where a click can come.
C4_GetMatchesScansRows ==
  /\ Idle => \A text \in UserRegexStrings :
       LET found == getMatches(text, rowArray)
           list == found.matchLocations
       IN  ~found.threw /\ ~found.diverged =>
             /\ {list[i] : i \in 1..Len(list)} = scannedCells(RegExp(text), rowArray)
             /\ \A i \in 1..(Len(list) - 1) : Precedes(list[i], list[i + 1])
             /\ \A i \in 1..Len(list) : list[i] \in Cells
  /\ MatchesShown =>
       \E text \in UserRegexStrings :
         Head(timers).matchLocations = getMatches(text, rowArray).matchLocations
  /\ getMatches(<<LetterA>>,
                <<<<LetterA, LetterA, LetterB, LetterA, LetterA>>>>).matchLocations
       = <<<<0, 0>>, <<0, 1>>, <<0, 3>>, <<0, 4>>>>
  /\ getMatches(<<LetterA>>,
                <<<<LetterB, LetterB>>, <<LetterB, LetterA>>>>).matchLocations
       = <<<<1, 1>>>>

\* C4 happens: a click collected a list in which one row has two separate
\* matches (columns 0 and 2 but not 1) and another row has none.
C4_Witness ==
  /\ MatchesShown
  /\ LET list == Head(timers).matchLocations
         in(loc) == \E i \in 1..Len(list) : list[i] = loc
     IN  /\ \E row \in 0..(NUM_ROWS - 1) :
              in(<<row, 0>>) /\ ~in(<<row, 1>>) /\ in(<<row, 2>>)
         /\ \E row \in 0..(NUM_ROWS - 1) :
              \A col \in 0..(CHAR_PER_ROW - 1) : ~in(<<row, col>>)

\* The matches of each row scanned on its own, with a fresh expression,
\* from row number `row` (0-based) on, one row after the other.
RECURSIVE rowByRow(_, _, _)
rowByRow(text, rows, row) ==
  IF row >= Len(rows) THEN <<>>
  ELSE LET alone == getMatches(text, <<rows[row + 1]>>).matchLocations
       IN  [i \in 1..Len(alone) |-> <<row, alone[i][2]>>]
             \o rowByRow(text, rows, row + 1)

\* C5: the matches reported for a row depend on that row alone: scanning the
\* grid with the one reused expression gives, row for row, what a scan of
\* each row from column 0 with a fresh expression gives, and every match
\* lies within one row.  The grids are those of the idle page.
C5_MatchingIsRowLocal ==
  /\ Idle => \A text \in UserRegexStrings :
       LET found == getMatches(text, rowArray)
       IN  ~found.threw /\ ~found.diverged =>
             found.matchLocations = rowByRow(text, rowArray, 0)
  /\ MatchesShown =>
       \E text \in UserRegexStrings :
         /\ Head(timers).matchLocations = rowByRow(text, rowArray, 0)
         /\ Head(timers).matchLocations = getMatches(text, rowArray).matchLocations

\* C5 happens: a click collected matches where one row's last match ends at
\* the end of the row and the next row's first match starts at column 0.
C5_Witness ==
  /\ MatchesShown
  /\ \E i \in 1..(Len(Head(timers).matchLocations) - 1) :
       /\ Head(timers).matchLocations[i][2] = CHAR_PER_ROW - 1
       /\ Head(timers).matchLocations[i + 1][1]
            = Head(timers).matchLocations[i][1] + 1
       /\ Head(timers).matchLocations[i + 1][2] = 0

\* Cycles in progress: each cycle with matches ends when its second timeout
\* runs; a cycle whose handler never returns stays in progress.
ActiveCycles ==
  Cardinality({k \in 1..Len(timers) : timers[k].fn = "redraw"})
    + (IF busy THEN 1 ELSE 0)

\* C6: at most one cycle is in progress, its button is disabled, and a click
\* is only ever handled when no cycle is in progress.
C6_NoCycleStartsDuringCycle ==
  /\ [](ActiveCycles <= 1 /\ (ActiveCycles = 1 => runButtonDisabled))
  /\ [][clicks' # clicks => ActiveCycles = 0]_vars

\* C6 happens: a second cycle is in progress, started after the first one
\* had completed.
C6_Witness ==
  clicks = 2 /\ ActiveCycles = 1 /\ runButtonDisabled /\ MatchesShown

\* C7: when the pattern text does not compile, the error is surfaced, nothing
\* is matched or scheduled, the grid is as generated, and the run button is
\* enabled again.
C7_InvalidPatternAbortsToIdle ==
  uncaught = "SyntaxError" =>
    /\ timers = <<>>
    /\ \A k \in 1..Len(charDisplay) : charDisplay[k].matchedChar = 0
    /\ HasGridShape(rowArray) /\ NoRemovedCell(rowArray)
    /\ ~runButtonDisabled

\* C8: the grid changes only in the step that runs the first timeout, so
\* never while idle and never between the click and the removal; and while
\* that timeout is pending its match list is still what getMatches gives on
\* the grid.
C8_GridChangesOnlyAtRemoval ==
  /\ [][rowArray' # rowArray => MatchesShown]_vars
  /\ [](MatchesShown =>
          /\ Head(timers).matchLocations # <<>>
          /\ \E text \in UserRegexStrings :
               getMatches(text, rowArray).matchLocations
                 = Head(timers).matchLocations)

\* C8 happens: the first timeout has run and changed the grid (the display
\* still shows the grid as removeCharacters left it).
C8_Witness ==
  /\ RemovalShown
  /\ \E loc \in Cells : ShownAt(charDisplay, loc) # cellAt(rowArray, loc)
  /\ \E loc \in Cells : ShownAt(charDisplay, loc) = REMOVED_CHAR_SYMBOL

IsPrefix(s, t) == Len(s) <= Len(t) /\ s = SubSeq(t, 1, Len(s))

\* C9: a cycle with matches runs highlight, removal, collapse, refill and
\* reset in this order, each once: while the first timeout is pending only
\* the highlight has run; while the second is pending the removal, collapse
\* and refill have run and the button is still disabled; the button is
\* enabled only when nothing is pending.
C9_CycleStepsInOrder ==
  /\ IsPrefix(trace, MatchCycleTrace) \/ IsPrefix(trace, NoMatchCycleTrace)
  /\ MatchesShown =>
       /\ trace = SubSeq(MatchCycleTrace, 1, 2)
       /\ runButtonDisabled
       /\ \E k \in 1..Len(charDisplay) : charDisplay[k].matchedChar > 0
  /\ RemovalShown =>
       /\ trace = SubSeq(MatchCycleTrace, 1, 8)
       /\ runButtonDisabled
       /\ NoRemovedCell(rowArray)
  /\ ~runButtonDisabled => timers = <<>>
  /\ Idle /\ Len(trace) > Len(NoMatchCycleTrace) => trace = MatchCycleTrace

\* C9 happens: a first cycle with matches has run to its end.
C9_Witness ==
  Idle /\ clicks = 1 /\ trace = MatchCycleTrace

(***************************************************************************)
(* LiveSpec: the page, with every scheduled timeout eventually running.    *)
(***************************************************************************)
LiveSpec ==
  /\ Spec
  /\ WF_vars(\E rnd \in RandomStreams : FireRemove(rnd))
  /\ WF_vars(\E rnd \in RandomStreams : FireRedraw(rnd))

\* C10: a click whose pattern compiles and has only non-empty matches either
\* leaves the page idle at once (no match) or schedules the timeouts, and
\* whenever a timeout is pending the page eventually becomes idle.
C10_CycleReturnsToIdle ==
  /\ [][(clicks' # clicks /\ uncaught' = "none" /\ ~busy')
          => (Idle' \/ MatchesShown')]_vars
  /\ (timers # <<>>) ~> Idle

\* C10 happens: the page is idle after a cycle without a match that followed
\* a cycle with matches.
C10_Witness ==
  Idle /\ clicks = 2 /\ trace = NoMatchCycleTrace
       /\ \E loc \in Cells : cellAt(rowArray, loc) # LetterA

\* getMatches returns normally with an empty list for the text on the grid.
FindsNothing(text, rows) ==
  /\ ~getMatches(text, rows).threw
  /\ ~getMatches(text, rows).diverged
  /\ getMatches(text, rows).matchLocations = <<>>

\* C11: a click whose match list is empty changes neither the grid nor the
\* display, schedules no timer, highlights no element, raises no error and
\* leaves the page idle.
C11_NoMatchCycleChangesNothing ==
  [][\A text \in UserRegexStrings :
       (RunButtonClick(text) /\ FindsNothing(text, rowArray)) =>
         /\ rowArray' = rowArray
         /\ charDisplay' = charDisplay
         /\ \A k \in 1..Len(charDisplay') : charDisplay'[k].matchedChar = 0
         /\ timers = <<>> /\ timers' = <<>>
         /\ uncaught' = "none"
         /\ Idle'
         /\ trace' = NoMatchCycleTrace]_vars

\* C11 happens: the first click found nothing and the page is idle again.
C11_Witness ==
  Idle /\ clicks = 1 /\ trace = NoMatchCycleTrace

\* The uppercase letters "A" .. "Z" as codes.
UppercaseLetters == [i \in 1..26 |-> 64 + i]

\* C12: the alphabet is the 26 letters A .. Z in order, and every character
\* of the grid is a letter of the alphabet.
C12_AlphabetIsAToZ ==
  /\ POSSIBLE_ASCII_CHARACTERS = UppercaseLetters
  /\ \A loc \in Cells :
       cellAt(rowArray, loc) = REMOVED_CHAR_SYMBOL
         \/ \E i \in 1..Len(POSSIBLE_ASCII_CHARACTERS) :
              POSSIBLE_ASCII_CHARACTERS[i] = cellAt(rowArray, loc)

\* The display shows the removed-character symbol somewhere.
RemovedCellShown ==
  \E k \in 1..Len(charDisplay) : charDisplay[k].text = REMOVED_CHAR_SYMBOL

\* C13 as stated: whatever grid the row-filling step of generateCharDisplay
\* is called on, the grid it leaves has no removed cell; so has the grid it
\* leaves, and renders, right after removeCharacters.
C13_PopulateLeavesNoRemovedCell ==
  /\ harness.called = "populate" => NoRemovedCell(rowArray)
  /\ RemovalShown => ~RemovedCellShown

\* C13, amended: the row-filling step generates no removed cell and keeps
\* the cells of every row that is there, so its result has a removed cell
\* exactly where its input had one; the grid right after removeCharacters
\* keeps its removed cells, which the display then shows.
C13_PopulateKeepsRemovedCells ==
  /\ harness.called = "populate" =>
       \A r \in 1..NUM_ROWS : \A c \in 1..CHAR_PER_ROW :
         rowArray[r][c] = REMOVED_CHAR_SYMBOL
           <=> /\ ~RowMissing(harness.before, r)
               /\ harness.before[r][c] = REMOVED_CHAR_SYMBOL
  /\ RemovalShown => RemovedCellShown

\* C13 happens: the step ran on a grid with a missing row and a row with a
\* removed cell, and the removed cell is still there.
C13_Witness ==
  /\ harness.called = "populate"
  /\ \E r \in 1..NUM_ROWS : RowMissing(harness.before, r)
  /\ \E r \in 1..NUM_ROWS : \E c \in 1..CHAR_PER_ROW :
       /\ ~RowMissing(harness.before, r)
       /\ harness.before[r][c] = REMOVED_CHAR_SYMBOL
       /\ rowArray[r][c] = REMOVED_CHAR_SYMBOL

IsGeneratedRow(row) ==
  /\ Len(row) = CHAR_PER_ROW
  /\ \A c \in 1..Len(row) :
       \E i \in 1..Len(POSSIBLE_ASCII_CHARACTERS) :
         row[c] = POSSIBLE_ASCII_CHARACTERS[i]

IsRemovedRow(row) ==
  row # <<>> /\ \A c \in 1..Len(row) : row[c] = REMOVED_CHAR_SYMBOL

\* C14: the row-filling step of generateCharDisplay gives NUM_ROWS rows, a
\* generated row of CHAR_PER_ROW alphabet characters for every row that was
\* undefined or empty and every other row as it was, a row of removed cells
\* included; called again on its result it gives what one call gives.
C14_PopulateFillsMissingRowsOnly ==
  /\ harness.called \in {"populate", "populateAgain"} =>
       Len(rowArray) = NUM_ROWS
  /\ harness.called = "populate" =>
       \A r \in 1..NUM_ROWS :
         IF RowMissing(harness.before, r)
           THEN IsGeneratedRow(rowArray[r])
           ELSE rowArray[r] = harness.before[r]
  /\ harness.called = "populateAgain" =>
       \E rnd \in RandomStreams : rowArray = populate(harness.before, rnd)

\* C14 happens: the step ran twice on a grid with an empty row, a row of
\* removed cells only and an undefined last row; the row of removed cells
\* is still there.
C14_Witness ==
  /\ harness.called = "populateAgain"
  /\ Len(harness.before) < NUM_ROWS
  /\ \E r \in 1..Len(harness.before) : harness.before[r] = <<>>
  /\ \E r \in 1..Len(harness.before) :
       IsRemovedRow(harness.before[r]) /\ rowArray[r] = harness.before[r]

\* The expression of the text matches the empty string (every item starred).
MatchesEmptyString(text) ==
  RegExpValid(text) /\ matchEnd(RegExp(text), <<>>, 0) = 0

\* C15: an empty match pushes no location and leaves lastIndex where the
\* match was found, so exec finds it again; getMatches with a text that
\* matches the empty string therefore never returns, whatever the grid: the
\* click handler stays in getMatches with the button disabled, no timer
\* and the grid as it was, and nothing happens on the page any more.  The
\* rows and grids are those of the idle page, where a click can come.
C15_EmptyMatchNeverReturns ==
  /\ [](Idle =>
          \A text \in {t \in UserRegexStrings : RegExpValid(t)} :
            \A r \in 1..Len(rowArray) : \A lastIndex \in 0..Len(rowArray[r]) :
              LET match == exec(RegExp(text), rowArray[r], lastIndex)
              IN  (match.found /\ match.length = 0) =>
                    /\ matchColumns(r - 1, match) = <<>>
                    /\ match.lastIndex = match.index
                    /\ exec(RegExp(text), rowArray[r], match.lastIndex) = match)
  /\ [](\A text \in UserRegexStrings :
          MatchesEmptyString(text) => getMatches(text, rowArray).diverged)
  /\ [][\A text \in UserRegexStrings :
          (MatchesEmptyString(text) /\ RunButtonClick(text)) =>
            /\ busy' /\ runButtonDisabled' /\ timers' = <<>>
            /\ rowArray' = rowArray]_vars
  /\ [](busy => runButtonDisabled /\ timers = <<>>)
  /\ [][~busy]_vars

\* C15 happens: after a completed cycle, a second click with a text
\* that matches the empty string has left the handler in getMatches.
C15_Witness ==
  busy /\ runButtonDisabled /\ clicks = 2 /\ trace = <<"getMatches">>

\* getMatches returns normally for the text on the grid.
Returns(text, rows) ==
  ~getMatches(text, rows).threw /\ ~getMatches(text, rows).diverged

\* The location is one of the list.
Listed(matchIndexes, loc) ==
  \E i \in 1..Len(matchIndexes) : matchIndexes[i] = loc

\* C16: removeCharacters with a match list getMatches produced on the grid
\* leaves every cell that is not in the list as it was.
C16_UnmatchedCellsKept ==
  \A text \in UserRegexStrings :
    Returns(text, rowArray) =>
      LET matchIndexes == getMatches(text, rowArray).matchLocations
          removed == removeCharacters(rowArray, matchIndexes)
      IN  \A loc \in Cells :
            ~Listed(matchIndexes, loc) =>
              cellAt(removed, loc) = cellAt(rowArray, loc)

\* The columns the list has in a row, and the columns removed from a row.
locationsInRow(matchIndexes, row) ==
  {matchIndexes[i][2] : i \in {j \in 1..Len(matchIndexes) :
                                 matchIndexes[j][1] = row}}
removedFromRow(before, after, row) ==
  {col \in 0..(Len(before[row + 1]) - 1) :
     /\ charAt(before[row + 1], col) # REMOVED_CHAR_SYMBOL
     /\ charAt(after[row + 1], col) = REMOVED_CHAR_SYMBOL}

\* Per row: removeCharacters keeps the length of the row, turns as many
\* cells into the removed-character symbol as the list has locations in the
\* row, removes each character as often as it occurs at these locations,
\* and leaves a row without a location as it was.
ConservesRows(before, matchIndexes, after) ==
  /\ Len(after) = Len(before)
  /\ \A row \in 0..(Len(before) - 1) :
       LET gone == removedFromRow(before, after, row)
           listed == locationsInRow(matchIndexes, row)
           was == before[row + 1]
       IN  /\ Len(after[row + 1]) = Len(was)
           /\ Cardinality(gone) = Cardinality(listed)
           /\ \A ch \in {was[c] : c \in 1..Len(was)} :
                Cardinality({col \in gone : charAt(was, col) = ch})
                  = Cardinality({col \in listed : charAt(was, col) = ch})
           /\ listed = {} => after[row + 1] = was
           /\ Cardinality(listed) = Len(was) => IsRemovedRow(after[row + 1])

\* The row of the display for the 0-based row number.
shownRow(display, row) ==
  [c \in 1..CHAR_PER_ROW |-> ShownAt(display, <<row, c - 1>>)]

\* C17: removeCharacters with a match list getMatches produced on the grid
\* of the idle page conserves counts per row; and the grid the first timeout renders has, in
\* each row, as many removed cells as its match list has locations in the
\* row, all of them when the list covers the row.
C17_RemovalConservesRowCounts ==
  /\ Idle => \A text \in UserRegexStrings :
       LET found == getMatches(text, rowArray)
       IN  ~found.threw /\ ~found.diverged =>
             ConservesRows(rowArray, found.matchLocations,
                           removeCharacters(rowArray, found.matchLocations))
  /\ RemovalShown =>
       \A row \in 0..(NUM_ROWS - 1) :
         Cardinality({c \in 1..CHAR_PER_ROW :
                        shownRow(charDisplay, row)[c] = REMOVED_CHAR_SYMBOL})
           = Cardinality(locationsInRow(Head(timers).matchLocations, row))

\* C17 happens: the first timeout has removed a whole row, part of another
\* row, and nothing of a third.
C17_Witness ==
  /\ RemovalShown
  /\ \E row \in 0..(NUM_ROWS - 1) :
       /\ Cardinality(locationsInRow(Head(timers).matchLocations, row))
            = CHAR_PER_ROW
       /\ IsRemovedRow(shownRow(charDisplay, row))
  /\ \E row \in 0..(NUM_ROWS - 1) :
       /\ locationsInRow(Head(timers).matchLocations, row) # {}
       /\ ~IsRemovedRow(shownRow(charDisplay, row))
  /\ \E row \in 0..(NUM_ROWS - 1) :
       locationsInRow(Head(timers).matchLocations, row) = {}

\* C18: whenever the page is idle the display has one element per cell, in
\* row-major order, each showing the character of its cell of rowArray and
\* none highlighted.
C18_IdleDisplayShowsGrid ==
  Idle =>
    /\ Len(charDisplay) = NUM_ROWS * CHAR_PER_ROW
    /\ \A loc \in Cells :
         /\ ShownAt(charDisplay, loc) = cellAt(rowArray, loc)
         /\ charDisplay[(loc[1] * CHAR_PER_ROW) + loc[2] + 1].row = loc[1]
    /\ \A k \in 1..Len(charDisplay) : charDisplay[k].matchedChar = 0

\* C18 happens: the page is idle after two cycles, the second with matches,
\* whose refill left a grid with two different characters.
C18_Witness ==
  /\ Idle /\ clicks = 2 /\ trace = MatchCycleTrace
  /\ \E a \in Cells, b \in Cells : cellAt(rowArray, a) # cellAt(rowArray, b)

\* Grid sizes <<NUM_ROWS, CHAR_PER_ROW>> whose cells two digits can number.
GridSizes == {size \in (1..100) \X (1..100) : size[1] * size[2] <= 100}

\* The elements highlighted are those of the cells of the pending match list.
HighlightsMatchedCells ==
  \A loc \in Cells :
    charDisplay[(loc[1] * CHAR_PER_ROW) + loc[2] + 1].matchedChar > 0
      <=> Listed(Head(timers).matchLocations, loc)

\* C19: in every grid size of at most 100 cells the id elementLocation
\* computes for an in-bounds (row, col) is the id generateCharDisplay gave
\* the element of that cell, distinct cells have distinct ids, and
\* highlightMatches highlights exactly the matched cells.
C19_ElementIdsAgree ==
  /\ \A size \in GridSizes :
       \A row \in 0..(size[1] - 1) : \A col \in 0..(size[2] - 1) :
         elementId(size[1], <<row, col>>) = displayId(size[2], row, col)
  /\ \A size \in GridSizes :
       \A a \in (0..(size[1] - 1)) \X (0..(size[2] - 1)) :
         \A b \in (0..(size[1] - 1)) \X (0..(size[2] - 1)) :
           a # b => displayId(size[2], a[1], a[2]) # displayId(size[2], b[1], b[2])
  /\ MatchesShown => HighlightsMatchedCells

====
